---- MODULE Spec2Model ----
(***************************************************************************)
(* A model of gogverify.py: one run of main(), from the parsed command     *)
(* line to the exit status.  The remote documents (builds listing, content *)
(* descriptor, depot listings) are inputs of the fetch steps; the local    *)
(* installation tree is fixed for the run.  The local execution platform   *)
(* is POSIX: a normalized path is the sequence of its components.          *)
(***************************************************************************)
EXTENDS Integers, Sequences, FiniteSets, TLC

\* ---------------------------------------------------------------- bounds
MaxBuilds == 2
MaxDepots == 2
MaxItems == 2

\* ------------------------------------------------------------ vocabulary
None == "None"
Absent == "<absent>"
EmptyMd5 == "d41d8cd98f00b204e9800998ecf8427e"

SeqsUpTo(S, n) == UNION {[1..m -> S] : m \in 0..n}

GameId == "G1"
BuildIds == {"B1", "B2"}
TargetBuildId == "B1"

Platforms == {"windows", "osx"}
Filters == {"en-US", "*"}
LangSets == {{"fr-FR"}, {"en-US", "fr-FR"}, {"*"}}

Contents == {"", "x", "y"}
Md5Digest(c) == IF c = "" THEN EmptyMd5 ELSE IF c = "x" THEN "md5x" ELSE "md5y"
Sha256Digest(c) == IF c = "" THEN "sha0" ELSE IF c = "x" THEN "shax" ELSE "shay"
Md5s == {Md5Digest(c) : c \in Contents}
Sha256s == {Sha256Digest(c) : c \in Contents}

\* Raw depot paths are strings over these characters.
RawPaths == {<<"a">>, <<"a", "\\", "b">>, <<"a", "/", "b">>}

\* pathlib: split a raw path on the separators of the authoring platform.
RECURSIVE SplitPath(_, _, _)
SplitPath(raw, seps, cur) ==
    IF raw = <<>>
    THEN IF cur = <<>> THEN <<>> ELSE <<cur>>
    ELSE IF Head(raw) \in seps
         THEN (IF cur = <<>> THEN <<>> ELSE <<cur>>) \o SplitPath(Tail(raw), seps, <<>>)
         ELSE SplitPath(Tail(raw), seps, Append(cur, Head(raw)))

NormalizePath(os, raw) ==
    SplitPath(raw, IF os = "windows" THEN {"\\", "/"} ELSE {"/"}, <<>>)

LocalPaths == {NormalizePath(os, raw) : os \in Platforms, raw \in RawPaths}

\* ------------------------------------------------------- remote documents
LinkOf(i) == <<"link", i>>
ManifestOf(i) == <<"c", "0", "f", "e", i>>

BuildLists ==
    UNION {{[i \in 1..m |-> [build_id |-> ids[i], link |-> LinkOf(i)]] :
                ids \in [1..m -> BuildIds]} : m \in 0..MaxBuilds}

DepotLists ==
    UNION {{[i \in 1..m |-> [manifest |-> ManifestOf(i), languages |-> ls[i]]] :
                ls \in [1..m -> LangSets]} : m \in 0..MaxDepots}

ChunkLists == {<<>>, <<"md5x">>, <<"md5x", "md5y">>}

DirectoryItems ==
    [path : RawPaths, type : {"DepotDirectory"}, chunks : {<<>>},
     md5 : {Absent}, sha256 : {Absent}]
FileItems ==
    [path : RawPaths, type : {"DepotFile"}, chunks : ChunkLists,
     md5 : {Absent, "md5w"}, sha256 : {Absent, "shax"}]
Items == DirectoryItems \cup FileItems

\* The listings served in a whole run: the items without optional fields,
\* all at the one path whose components depend on the authoring platform.
ServedItems ==
    {it \in Items :
        it.path = <<"a", "\\", "b">> /\ it.md5 = Absent /\ it.sha256 = Absent}

\* ------------------------------------------------------------------ state
VARIABLES args, local, pc, info, builds, link, content, d, listing, k,
          files, out, errors, outcomes, i, status, fatal, net, fsops

vars == <<args, local, pc, info, builds, link, content, d, listing, k,
          files, out, errors, outcomes, i, status, fatal, net, fsops>>

\* ------------------------------------------------------------- local tree
LocalStates(cs) ==
    {[kind |-> "absent", content |-> ""], [kind |-> "dir", content |-> ""]}
        \cup {[kind |-> "file", content |-> c] : c \in cs}

\* A path below "a" exists only when "a" is a directory.
LocalTrees(cs) ==
    {t \in [LocalPaths -> LocalStates(cs)] :
        \A p \in LocalPaths :
            (Len(p) > 1 /\ t[p].kind # "absent") => t[<<Head(p)>>].kind = "dir"}

exists(p) == IF p \in LocalPaths THEN local[p].kind # "absent" ELSE FALSE
isdir(p) == IF p \in LocalPaths THEN local[p].kind = "dir" ELSE FALSE
isfile(p) == IF p \in LocalPaths THEN local[p].kind = "file" ELSE FALSE
compute_md5(p) == Md5Digest(local[p].content)
compute_sha256(p) == Sha256Digest(local[p].content)

\* os.walk is top-down: the files of a directory come before those below it.
WalkOrders ==
    LET fs == {p \in LocalPaths : local[p].kind = "file"}
    IN  {w \in [1..Cardinality(fs) -> fs] :
            /\ \A a, b \in 1..Cardinality(fs) : a # b => w[a] # w[b]
            /\ \A a, b \in 1..Cardinality(fs) : a < b => Len(w[a]) <= Len(w[b])}

\* ----------------------------------------------------------------- output
RECURSIVE LogAll(_, _, _)
Written(o, line) == Append(o, line)

log(o, line) == IF args.quiet THEN o ELSE Written(o, line)

LogAll(o, lines, n) ==
    IF n > Len(lines) THEN o ELSE LogAll(log(o, lines[n]), lines, n + 1)

error_NoExit(o, cause, line) ==
    /\ out' = log(o, line)
    /\ status' = 1
    /\ fatal' = cause
    /\ pc' = IF cause = "net" /\ pc = "depots" THEN "items" ELSE "done"

\* error(msg): log to stderr, then exit(1).
error(o, cause, line) ==
    /\ out' = log(o, line)
    /\ status' = 1
    /\ fatal' = cause
    /\ pc' = "done"

\* An uncaught exception: the interpreter prints the traceback and exits 1.
Raise(exc) ==
    /\ out' = Written(out, [stream |-> "stderr", t |-> "traceback", exc |-> exc])
    /\ status' = 1
    /\ fatal' = exc
    /\ pc' = "done"

ErrLine(what) == [stream |-> "stderr", t |-> "error", what |-> what]

\* ------------------------------------------------------------------- Init
Running == -1

InitCommon ==
    /\ pc = "start"
    /\ info = [gameId |-> None, buildId |-> None]
    /\ builds = <<>>
    /\ link = None
    /\ content = <<>>
    /\ d = 1
    /\ listing = <<>>
    /\ k = 1
    /\ files = <<>>
    /\ out = <<>>
    /\ errors = <<>>
    /\ outcomes = <<>>
    /\ i = 1
    /\ status = Running
    /\ fatal = None
    /\ net = <<>>
    /\ fsops = {}

Init ==
    /\ args \in [quiet : BOOLEAN, os : Platforms, language : Filters, dump : BOOLEAN]
    /\ local \in LocalTrees({"x"})
    /\ args.dump => \A p \in LocalPaths : local[p].kind = "absent"
    /\ InitCommon

\* ------------------------------------------------------------------- main
\* --dump-md5sums GAME_ID BUILD_ID: the identity comes from the command line.
DumpArgs ==
    /\ pc = "start"
    /\ args.dump
    /\ info' = [gameId |-> GameId, buildId |-> TargetBuildId]
    /\ pc' = "builds"
    /\ UNCHANGED <<args, local, builds, link, content, d, listing, k, files, out,
                   errors, outcomes, i, status, fatal, net, fsops>>

\* get_info(path): the info file, and the id file when the info file has no buildId.
get_info ==
    /\ pc = "start"
    /\ ~args.dump
    /\ fsops' = fsops \cup {"glob"}
    /\ \E hasInfo \in BOOLEAN, hasBuildId \in BOOLEAN, hasId \in BOOLEAN :
          IF ~hasInfo
          THEN /\ error(out, "info", ErrLine("Failed to find info file"))
               /\ UNCHANGED info
          ELSE IF ~hasBuildId /\ ~hasId
          THEN /\ error(out, "id", ErrLine("Failed to find id file"))
               /\ UNCHANGED info
          ELSE /\ info' = [gameId |-> GameId, buildId |-> TargetBuildId]
               /\ out' = log(out, [stream |-> "stdout", t |-> "name"])
               /\ pc' = "builds"
               /\ UNCHANGED <<status, fatal>>
    /\ UNCHANGED <<args, local, builds, link, content, d, listing, k, files,
                   errors, outcomes, i, net>>

\* ------------------------------------------------------------- get_files
BuildsUrl == [t |-> "builds", game |-> info.gameId, os |-> args.os]
ContentUrl(l) == [t |-> "content", link |-> l]
DepotUrl(m) == [t |-> "depot", a |-> SubSeq(m, 1, 2), b |-> SubSeq(m, 3, 4), manifest |-> m]

NetError(o, url) == error(o, "net", [stream |-> "stderr", t |-> "neterror", url |-> url])

FirstMatch_Last(bl, id) ==
    LET ms == {j \in 1..Len(bl) : bl[j].build_id = id}
    IN  CHOOSE j \in ms : \A j2 \in ms : j >= j2

\* for build in builds["items"]: if build["build_id"] == build_id: break
FirstMatch(bl, id) ==
    LET ms == {j \in 1..Len(bl) : bl[j].build_id = id}
    IN  CHOOSE j \in ms : \A j2 \in ms : j <= j2

FetchBuilds ==
    /\ pc = "builds"
    /\ net' = Append(net, BuildsUrl)
    /\ \/ /\ NetError(out, BuildsUrl)
          /\ UNCHANGED <<builds, link>>
       \/ \E bl \in BuildLists :
            /\ builds' = bl
            /\ IF \E j \in 1..Len(bl) : bl[j].build_id = info.buildId
               THEN /\ link' = bl[FirstMatch(bl, info.buildId)].link
                    /\ pc' = "content"
                    /\ UNCHANGED <<out, status, fatal>>
               ELSE /\ error(out, "build", ErrLine("Could not find build with correct build id."))
                    /\ UNCHANGED link
    /\ UNCHANGED <<args, local, info, content, d, listing, k, files,
                   errors, outcomes, i, fsops>>

\* content = download_json(link, use_zlib=True); files = [].
FetchContent ==
    /\ pc = "content"
    /\ net' = Append(net, ContentUrl(link))
    /\ \/ /\ NetError(out, ContentUrl(link))
          /\ UNCHANGED <<content, d, files>>
       \/ \E ds \in DepotLists :
            /\ content' = ds
            /\ d' = 1
            /\ files' = <<>>
            /\ pc' = "depots"
            /\ UNCHANGED <<out, status, fatal>>
    /\ UNCHANGED <<args, local, info, builds, link, listing, k,
                   errors, outcomes, i, fsops>>

Included_NoWildcardTag(language, depot) ==
    language = "*" \/ language \in depot.languages

Included(language, depot) ==
    language = "*" \/ language \in depot.languages \/ "*" \in depot.languages

DepotSkip ==
    /\ pc = "depots"
    /\ d <= Len(content)
    /\ ~Included(args.language, content[d])
    /\ d' = d + 1
    /\ UNCHANGED <<args, local, pc, info, builds, link, content, listing, k, files,
                   out, errors, outcomes, i, status, fatal, net, fsops>>

\* print(url), then download_json(url, use_zlib=True).
DepotFetch ==
    /\ pc = "depots"
    /\ d <= Len(content)
    /\ Included(args.language, content[d])
    /\ LET url == DepotUrl(content[d].manifest)
           printed == Written(out, [stream |-> "stdout", t |-> "url", url |-> url])
       IN  /\ net' = Append(net, url)
           /\ \/ /\ NetError(printed, url)
                 /\ UNCHANGED <<listing, k>>
              \/ \E l \in SeqsUpTo(ServedItems, MaxItems) :
                    /\ out' = printed
                    /\ listing' = l
                    /\ k' = 1
                    /\ pc' = "items"
                    /\ UNCHANGED <<status, fatal>>
    /\ UNCHANGED <<args, local, info, builds, link, content, d, files,
                   errors, outcomes, i, fsops>>

FileInfo(path, md5, sha256, is_dir) ==
    [path |-> path, md5 |-> md5, sha256 |-> sha256, is_dir |-> is_dir]

\* FileInfo(path, None, True): three arguments for four fields, a TypeError.
ItemDirectory ==
    /\ pc = "items"
    /\ k <= Len(listing)
    /\ listing[k].type = "DepotDirectory"
    /\ Raise("TypeError")
    /\ UNCHANGED <<args, local, info, builds, link, content, d, listing, k, files,
                   errors, outcomes, i, net, fsops>>

DerivedMd5_PreferField(item) ==
    IF item.md5 # Absent THEN item.md5
    ELSE IF Len(item.chunks) >= 1 THEN item.chunks[1]
    ELSE EmptyMd5

DerivedMd5(item) ==
    IF Len(item.chunks) > 1 THEN item.md5
    ELSE IF Len(item.chunks) = 1 THEN item.chunks[1]
    ELSE EmptyMd5

ItemFile ==
    /\ pc = "items"
    /\ k <= Len(listing)
    /\ listing[k].type # "DepotDirectory"
    /\ LET item == listing[k]
           path == NormalizePath(args.os, item.path)
           sha256 == IF item.sha256 # Absent THEN item.sha256 ELSE None
       IN  IF Len(item.chunks) > 1 /\ item.md5 = Absent
           THEN /\ Raise("KeyError")
                /\ UNCHANGED <<files, k>>
           ELSE /\ files' = Append(files, FileInfo(path, DerivedMd5(item), sha256, FALSE))
                /\ k' = k + 1
                /\ UNCHANGED <<pc, out, status, fatal>>
    /\ UNCHANGED <<args, local, info, builds, link, content, d, listing,
                   errors, outcomes, i, net, fsops>>

DepotDone ==
    /\ pc = "items"
    /\ k > Len(listing)
    /\ d' = d + 1
    /\ pc' = "depots"
    /\ UNCHANGED <<args, local, info, builds, link, content, listing, k, files,
                   out, errors, outcomes, i, status, fatal, net, fsops>>

\* ------------------------------------------------------ main, after get_files
Md5sumLines ==
    LET fs == SelectSeq(files, LAMBDA f : ~f.is_dir)
    IN  [n \in 1..Len(fs) |->
            [stream |-> "stdout", t |-> "md5sum", md5 |-> fs[n].md5, path |-> fs[n].path]]

DumpMd5sums ==
    /\ pc = "depots"
    /\ d > Len(content)
    /\ args.dump
    /\ out' = LogAll(out, Md5sumLines, 1)
    /\ status' = 0
    /\ pc' = "done"
    /\ UNCHANGED <<args, local, info, builds, link, content, d, listing, k, files,
                   errors, outcomes, i, fatal, net, fsops>>

file_paths == {files[n].path : n \in 1..Len(files)}

UnexpectedLines(walk) ==
    LET un == SelectSeq(walk, LAMBDA p : p \notin file_paths)
    IN  (IF un = <<>> THEN <<>> ELSE <<[stream |-> "stdout", t |-> "unexpected-header"]>>)
            \o [n \in 1..Len(un) |-> [stream |-> "stdout", t |-> "unexpected", path |-> un[n]]]

\* The walk of the installation, the unexpected files, the report's header.
Unexpected ==
    /\ pc = "depots"
    /\ d > Len(content)
    /\ ~args.dump
    /\ fsops' = fsops \cup {"walk"}
    /\ \E walk \in WalkOrders :
          out' = log(LogAll(out, UnexpectedLines(walk), 1),
                     [stream |-> "stdout", t |-> "expected-header"])
    /\ errors' = <<>>
    /\ i' = 1
    /\ pc' = "verify"
    /\ UNCHANGED <<args, local, info, builds, link, content, d, listing, k, files,
                   outcomes, status, fatal, net>>

md5_flag(file, md5) == md5 # file.md5

sha256_flag_NoNoneTest(file, sha256) == sha256 # file.sha256

sha256_flag(file, sha256) == file.sha256 # None /\ sha256 # file.sha256

Mismatch(mf, sf, md5, sha256) ==
    IF mf /\ sf THEN <<"MD5 and SHA256 mismatch", md5, sha256>>
    ELSE IF mf THEN <<"MD5 mismatch", md5>>
    ELSE IF sf THEN <<"SHA256 mismatch", sha256>>
    ELSE <<"OK">>

\* The body of "for file in files": the message for one expected entry.
Message(file) ==
    LET local_path == file.path
    IN  IF ~exists(local_path) THEN <<"Missing">>
        ELSE IF file.is_dir
             THEN IF ~isdir(local_path) THEN <<"Not a directory">> ELSE <<"OK">>
             ELSE IF ~isfile(local_path) THEN <<"Not a file">>
                  ELSE LET md5 == compute_md5(local_path)
                           sha256 == compute_sha256(local_path)
                       IN  Mismatch(md5_flag(file, md5), sha256_flag(file, sha256),
                                    md5, sha256)

Hashed(file) == exists(file.path) /\ ~file.is_dir /\ isfile(file.path)

OutcomeLine(file, msg) ==
    [stream |-> "stdout", t |-> "outcome", path |-> file.path,
     description |-> IF file.is_dir THEN "directory" ELSE file.md5, msg |-> msg]

VerifyEntry_OncePerPath ==
    /\ pc = "verify"
    /\ i <= Len(files)
    /\ LET file == files[i]
           msg == Message(file)
       IN  /\ errors' = IF msg # <<"OK">>
                           /\ \A n \in 1..Len(errors) : errors[n].path # file.path
                        THEN Append(errors, [path |-> file.path, msg |-> msg])
                        ELSE errors
           /\ outcomes' = Append(outcomes, msg)
           /\ out' = log(out, OutcomeLine(file, msg))
           /\ fsops' = fsops \cup {"exists"} \cup (IF Hashed(file) THEN {"hash"} ELSE {})
    /\ i' = i + 1
    /\ UNCHANGED <<args, local, pc, info, builds, link, content, d, listing, k, files,
                   status, fatal, net>>

VerifyEntry ==
    /\ pc = "verify"
    /\ i <= Len(files)
    /\ LET file == files[i]
           msg == Message(file)
       IN  /\ errors' = IF msg # <<"OK">>
                        THEN Append(errors, [path |-> file.path, msg |-> msg])
                        ELSE errors
           /\ outcomes' = Append(outcomes, msg)
           /\ out' = log(out, OutcomeLine(file, msg))
           /\ fsops' = fsops \cup {"exists"} \cup (IF Hashed(file) THEN {"hash"} ELSE {})
    /\ i' = i + 1
    /\ UNCHANGED <<args, local, pc, info, builds, link, content, d, listing, k, files,
                   status, fatal, net>>

ErrorLines ==
    <<[stream |-> "stdout", t |-> "errors-header"]>>
        \o [n \in 1..Len(errors) |->
               [stream |-> "stdout", t |-> "errline", path |-> errors[n].path,
                msg |-> errors[n].msg]]

Finish_AlwaysZero ==
    /\ pc = "verify"
    /\ i > Len(files)
    /\ out' = IF errors # <<>> THEN LogAll(out, ErrorLines, 1) ELSE out
    /\ status' = 0
    /\ pc' = "done"
    /\ UNCHANGED <<args, local, info, builds, link, content, d, listing, k, files,
                   errors, outcomes, i, fatal, net, fsops>>

\* if errors: report them and exit(1); otherwise main returns.
Finish ==
    /\ pc = "verify"
    /\ i > Len(files)
    /\ IF errors # <<>>
       THEN /\ out' = LogAll(out, ErrorLines, 1)
            /\ status' = 1
       ELSE /\ out' = out
            /\ status' = 0
    /\ pc' = "done"
    /\ UNCHANGED <<args, local, info, builds, link, content, d, listing, k, files,
                   errors, outcomes, i, fatal, net, fsops>>

Next ==
    \/ DumpArgs
    \/ get_info
    \/ FetchBuilds
    \/ FetchContent
    \/ DepotSkip
    \/ DepotFetch
    \/ ItemDirectory
    \/ ItemFile
    \/ DepotDone
    \/ DumpMd5sums
    \/ Unexpected
    \/ VerifyEntry
    \/ Finish

Spec == Init /\ [][Next]_vars

\* ---------------------------------------------- get_files' item loop alone
\* The state after the first depot's listing arrived, for any listing.
InitItems ==
    /\ args \in [quiet : BOOLEAN, os : Platforms, language : {"*"}, dump : BOOLEAN]
    /\ local = [p \in LocalPaths |-> [kind |-> "absent", content |-> ""]]
    /\ pc = "items"
    /\ info = [gameId |-> GameId, buildId |-> TargetBuildId]
    /\ builds = <<[build_id |-> TargetBuildId, link |-> LinkOf(1)]>>
    /\ link = LinkOf(1)
    /\ content = <<[manifest |-> ManifestOf(1), languages |-> {"*"}]>>
    /\ d = 1
    /\ listing \in SeqsUpTo(Items, MaxItems)
    /\ k = 1
    /\ files = <<>>
    /\ out = <<[stream |-> "stdout", t |-> "url", url |-> DepotUrl(ManifestOf(1))]>>
    /\ errors = <<>>
    /\ outcomes = <<>>
    /\ i = 1
    /\ status = Running
    /\ fatal = None
    /\ net = <<BuildsUrl, ContentUrl(LinkOf(1)), DepotUrl(ManifestOf(1))>>
    /\ fsops = {}

NextItems == ItemDirectory \/ ItemFile \/ DepotDone

SpecItems == InitItems /\ [][NextItems]_vars

\* ------------------------------------------------- the reconciliation alone
\* The state when get_files has returned, for any expected list and local tree.
FileInfos ==
    {FileInfo(p, None, None, TRUE) : p \in LocalPaths}
        \cup {FileInfo(p, m, s, FALSE) :
                p \in LocalPaths, m \in {"md5x", "md5y"}, s \in {None, "shax", "shay"}}

InitReconcile ==
    /\ args \in [quiet : BOOLEAN, os : {"osx"}, language : {"*"}, dump : {FALSE}]
    /\ local \in LocalTrees({"x", "y"})
    /\ pc = "depots"
    /\ info = [gameId |-> GameId, buildId |-> TargetBuildId]
    /\ builds = <<[build_id |-> TargetBuildId, link |-> LinkOf(1)]>>
    /\ link = LinkOf(1)
    /\ content = <<>>
    /\ d = 1
    /\ listing = <<>>
    /\ k = 1
    /\ files \in SeqsUpTo(FileInfos, MaxItems)
    /\ out = <<>>
    /\ errors = <<>>
    /\ outcomes = <<>>
    /\ i = 1
    /\ status = Running
    /\ fatal = None
    /\ net = <<BuildsUrl, ContentUrl(LinkOf(1))>>
    /\ fsops = {"glob"}

NextReconcile == Unexpected \/ VerifyEntry \/ Finish

SpecReconcile == InitReconcile /\ [][NextReconcile]_vars

\* ============================================================= properties

\* C1: every DepotDirectory item of a listing yields an expected entry with
\* is_dir = TRUE and no md5 and no sha256, and the run does not abort while
\* the expected file list is being built.
C1_DirectoryItemYieldsEntry ==
    /\ fatal # "TypeError"
    /\ pc = "items" =>
          \A n \in 1..(k - 1) :
              listing[n].type = "DepotDirectory" =>
                  \E m \in 1..Len(files) :
                      files[m] = FileInfo(NormalizePath(args.os, listing[n].path),
                                          None, None, TRUE)

\* C2: a run with the quiet flag set emits no output at any step.
C2_QuietEmitsNothing == args.quiet => out = <<>>

\* C3: a checksum-dump run that ends with status 0 has written exactly one
\* "md5  path" line per non-directory expected entry, in manifest order, and
\* nothing else, and has made no access to the local file system.
C3_DumpOutput ==
    (args.dump /\ pc = "done" /\ fatal = None) =>
        /\ status = 0
        /\ out = Md5sumLines
        /\ fsops = {}

\* The builds document has arrived (the fetch did not fail).
BuildsFetched == Len(net) >= 1 /\ ~(Len(net) = 1 /\ fatal = "net")
Matches == {j \in 1..Len(builds) : builds[j].build_id = info.buildId}

\* C4 as stated: resolution succeeds only when exactly one record of the
\* builds list has the target build id, and selects it; with no match or
\* with several the run aborts with status 1 before the content descriptor
\* is fetched.
C4_ExactlyOneMatch ==
    BuildsFetched =>
        IF Cardinality(Matches) = 1
        THEN fatal # "build" /\ \A j \in Matches : link = builds[j].link
        ELSE fatal = "build" /\ status = 1 /\ pc = "done" /\ Len(net) = 1

\* C4 amended: resolution succeeds if and only if at least one record has the
\* target build id, and selects the first such record of the list; with no
\* match the run aborts with status 1 before the content descriptor is fetched.
C4_FirstMatch ==
    BuildsFetched =>
        IF Matches # {}
        THEN /\ fatal # "build"
             /\ \E j \in Matches : (\A j2 \in Matches : j <= j2) /\ link = builds[j].link
        ELSE fatal = "build" /\ status = 1 /\ pc = "done" /\ Len(net) = 1

\* Two records match, the first was selected and the descriptor was fetched.
C4_Witness ==
    /\ Cardinality(Matches) = 2
    /\ link = builds[1].link
    /\ Len(net) >= 2
    /\ pc = "depots"

\* A verification run that ended without a fatal condition.
Verified == pc = "done" /\ ~args.dump /\ fatal = None

Lines(kind) == SelectSeq(out, LAMBDA l : l.t = kind)

\* C5: a verification run without a fatal condition ends with status 1 if
\* and only if some expected entry has an outcome other than OK, and with
\* status 0 otherwise; it ends only after an outcome was emitted for every
\* expected entry; a local file outside the expected paths is reported as
\* unexpected only: it enters no outcome and no error, and the status does
\* not depend on it.
C5_ExitStatus ==
    Verified =>
        /\ status = (IF \E n \in 1..Len(outcomes) : outcomes[n] # <<"OK">> THEN 1 ELSE 0)
        /\ Len(outcomes) = Len(files)
        /\ ~args.quiet => Len(Lines("outcome")) = Len(files)
        /\ \A n \in 1..Len(errors) : errors[n].path \in file_paths
        /\ \A n \in 1..Len(out) :
              out[n].t \in {"outcome", "errline"} => out[n].path \in file_paths

\* A run that reported an unexpected file and still ended with status 0.
C5_Witness ==
    /\ Verified
    /\ status = 0
    /\ Len(files) >= 2
    /\ Lines("unexpected") # <<>>

\* C6: a fatal failure (no info file, no id file, no matching build, a
\* transport error on any fetch) ends the run at once with status 1: no
\* fetch follows it, and no unexpected-file line and no outcome is emitted.
FatalCauses == {"info", "id", "build", "net"}

C6_FatalState ==
    fatal \in FatalCauses =>
        /\ pc = "done"
        /\ status = 1
        /\ outcomes = <<>>
        /\ \A n \in 1..Len(out) :
              out[n].t \notin {"unexpected-header", "unexpected", "expected-header",
                               "outcome", "errors-header", "errline"}
        /\ fsops \subseteq {"glob"}
        /\ fatal \in {"info", "id"} => net = <<>>
        /\ fatal = "build" => Len(net) = 1

C6_FatalAborts ==
    /\ [](C6_FatalState)
    /\ [][(fatal' \in FatalCauses) => (fatal = None /\ Len(net') <= Len(net) + 1)]_vars
    /\ [][(fatal \in FatalCauses) => (net' = net /\ out' = out /\ status' = status)]_vars

\* The second depot's fetch failed after the first depot gave entries.
C6_Witness ==
    /\ fatal = "net"
    /\ Len(net) = 4
    /\ files # <<>>
    /\ status = 1

\* The outcome class a message stands for.
OutcomeOf(msg) ==
    CASE Head(msg) = "OK" -> "OK"
      [] Head(msg) = "Missing" -> "Missing"
      [] Head(msg) \in {"Not a directory", "Not a file"} -> "WrongType"
      [] Head(msg) = "MD5 and SHA256 mismatch" -> "BothMismatch"
      [] Head(msg) = "MD5 mismatch" -> "Md5Mismatch"
      [] Head(msg) = "SHA256 mismatch" -> "Sha256Mismatch"

\* The reference classification of an expected entry against a local state.
Reference(e, st) ==
    LET m == Md5Digest(st.content) # e.md5
        s == e.sha256 # None /\ Sha256Digest(st.content) # e.sha256
    IN  CASE st.kind = "absent" -> "Missing"
          [] st.kind # "absent" /\ e.is_dir /\ st.kind # "dir" -> "WrongType"
          [] st.kind # "absent" /\ ~e.is_dir /\ st.kind # "file" -> "WrongType"
          [] st.kind = "dir" /\ e.is_dir -> "OK"
          [] st.kind = "file" /\ ~e.is_dir /\ m /\ s -> "BothMismatch"
          [] st.kind = "file" /\ ~e.is_dir /\ m /\ ~s -> "Md5Mismatch"
          [] st.kind = "file" /\ ~e.is_dir /\ ~m /\ s -> "Sha256Mismatch"
          [] st.kind = "file" /\ ~e.is_dir /\ ~m /\ ~s -> "OK"

\* C7: the outcome the reconciliation loop computes for an expected entry is
\* its reference classification: Missing, WrongType, BothMismatch,
\* Md5Mismatch, Sha256Mismatch or OK, and an entry without sha256 never has a
\* sha256 mismatch.
C7_Classification ==
    \A n \in 1..Len(outcomes) :
        /\ OutcomeOf(outcomes[n]) = Reference(files[n], local[files[n].path])
        /\ files[n].sha256 = None =>
              OutcomeOf(outcomes[n]) \notin {"Sha256Mismatch", "BothMismatch"}

\* A file of matching md5 whose entry has no sha256 was found OK, next to a
\* directory entry found as a regular file.
C7_Witness ==
    /\ pc = "done"
    /\ \E n, m \in 1..Len(outcomes) :
          /\ files[n].is_dir /\ outcomes[n] = <<"Not a directory">>
          /\ ~files[m].is_dir /\ files[m].sha256 = None /\ outcomes[m] = <<"OK">>

\* C8: the md5 of a file item's entry is the md5 of the empty input with no
\* chunk, the chunk's md5 with one chunk (a whole-file md5 is ignored), and
\* the whole-file md5 with several chunks; a multi-chunk item without that
\* field fails the run and yields no entry.
C8_DerivedMd5 ==
    /\ \A n \in 1..Len(files) :
          LET item == listing[n]
          IN  /\ item.type = "DepotFile" /\ ~files[n].is_dir
              /\ Len(item.chunks) = 0 => files[n].md5 = "d41d8cd98f00b204e9800998ecf8427e"
              /\ Len(item.chunks) = 1 => files[n].md5 = item.chunks[1]
              /\ Len(item.chunks) > 1 => item.md5 # Absent /\ files[n].md5 = item.md5
    /\ \A n \in 1..Len(listing) :
          (listing[n].type = "DepotFile" /\ Len(listing[n].chunks) > 1
              /\ listing[n].md5 = Absent /\ k >= n)
            => (Len(files) < n /\ (k = n => (pc = "items" \/ (fatal = "KeyError" /\ status = 1))))
    /\ fatal = "KeyError" =>
          Len(listing[k].chunks) > 1 /\ listing[k].md5 = Absent /\ Len(files) = k - 1

\* A one-chunk item carrying a whole-file md5, then a multi-chunk item.
C8_Witness ==
    /\ Len(files) = 2
    /\ Len(listing[1].chunks) = 1 /\ listing[1].md5 = "md5w" /\ files[1].md5 = "md5x"
    /\ Len(listing[2].chunks) = 2 /\ files[2].md5 = "md5w"

\* The inclusion rule, for the depot at position j of the descriptor.
Qualifies(j) ==
    \/ args.language = "*"
    \/ args.language \in content[j].languages
    \/ "*" \in content[j].languages

Fetched(j) == \E n \in 1..Len(net) : net[n] = DepotUrl(content[j].manifest)

C9_State ==
    /\ \A j \in 1..Len(content) : Fetched(j) => Qualifies(j)
    /\ \A j \in 1..Len(content) : j < d => (Fetched(j) <=> Qualifies(j))
    /\ pc = "items" =>
          /\ Fetched(d)
          /\ Len(files) >= k - 1
          /\ \A n \in 1..(k - 1) :
                LET e == files[Len(files) - (k - 1) + n]
                IN  e.path = NormalizePath(args.os, listing[n].path) /\ ~e.is_dir

\* C9: a depot's listing is fetched and its items are added to the expected
\* file list if and only if the filter is "*", or is one of the depot's
\* languages, or "*" is one of the depot's languages; an excluded depot
\* causes no fetch and adds no entry.
C9_DepotFilter ==
    /\ [](C9_State)
    /\ [][(pc = "depots" /\ d <= Len(content) /\ ~Qualifies(d))
            => (net' = net /\ files' = files /\ out' = out /\ d' = d + 1)]_vars
    /\ [][(pc = "depots" /\ d <= Len(content) /\ Qualifies(d))
            => (net' = Append(net, DepotUrl(content[d].manifest)) /\ d' = d)]_vars
    /\ [][(pc = "items" /\ pc' = "depots") => (k = Len(listing) + 1 /\ d' = d + 1)]_vars

\* Of two depots one was excluded and the other gave entries.
C9_Witness ==
    /\ pc = "depots"
    /\ d = 3
    /\ \E j \in 1..2 : ~Qualifies(j) /\ ~Fetched(j)
    /\ \E j \in 1..2 : Qualifies(j) /\ Fetched(j)
    /\ Len(files) = 2

RECURSIVE NonOk(_)
NonOk(n) ==
    IF n = 0 THEN <<>>
    ELSE NonOk(n - 1) \o (IF outcomes[n] # <<"OK">>
                          THEN <<[path |-> files[n].path, msg |-> outcomes[n]]>>
                          ELSE <<>>)

C10_State ==
    /\ pc = "verify" => Len(outcomes) = i - 1
    /\ Len(outcomes) <= Len(files)
    /\ errors = NonOk(Len(outcomes))
    /\ ~args.quiet =>
          Lines("outcome") =
              [n \in 1..Len(outcomes) |->
                  [stream |-> "stdout", t |-> "outcome", path |-> files[n].path,
                   description |-> IF files[n].is_dir THEN "directory" ELSE files[n].md5,
                   msg |-> outcomes[n]]]
    /\ Verified =>
          /\ Len(outcomes) = Len(files)
          /\ ~args.quiet =>
                Lines("errline") =
                    [n \in 1..Len(errors) |->
                        [stream |-> "stdout", t |-> "errline", path |-> errors[n].path,
                         msg |-> errors[n].msg]]

\* C10: a verification report has one outcome per expected entry, one per
\* occurrence of a path, in manifest order (depots in descriptor order,
\* items in listing order), and the error list is the subsequence of the
\* entries whose outcome is not OK, in that order.
C10_ReportOrder ==
    /\ [](C10_State)
    /\ [][(files' # files /\ pc # "content")
            => (/\ pc = "items"
                /\ Len(files') = Len(files) + 1
                /\ SubSeq(files', 1, Len(files)) = files
                /\ files'[Len(files')].path = NormalizePath(args.os, listing[k].path)
                /\ k' = k + 1)]_vars
    /\ [][d' >= d]_vars

\* The same path came from two depots; one occurrence is OK, the other not.
C10_Witness ==
    /\ Verified
    /\ ~args.quiet
    /\ Len(net) = 4
    /\ Len(listing) = 1
    /\ Len(files) = 2
    /\ files[1].path = files[2].path
    /\ outcomes[1] # <<"OK">>
    /\ outcomes[2] = <<"OK">>
    /\ Len(errors) = 1

====
